---- MODULE Spec2Model ----
(***************************************************************************)
(* State machine of the BIMFlow BCF front end: the zustand store           *)
(* (store/bcfStore.ts), the Upload page that registers archives and runs   *)
(* their inspections (pages/Upload.tsx), the Issues page that selects     *)
(* issues and triggers the merge (pages/Issues.tsx), the Dropzone that     *)
(* validates dropped files (components/Dropzone.tsx), the IssuesTable that *)
(* filters the aggregate (components/IssuesTable.tsx) and the API client   *)
(* functions that perform the inspection and merge requests.               *)
(*                                                                         *)
(* A JavaScript Map is modelled as a sequence of entries in insertion      *)
(* order; every handler runs to its first await as one step, and every     *)
(* continuation after an await is one step.                                *)
(***************************************************************************)
EXTENDS Integers, Sequences, FiniteSets, TLC

\* ------------------------------------------------------------------ bounds
\* File objects the uploads of one session create.
MaxUploads == 4
\* Largest number of files in one accepted batch.
MaxBatch == 2

\* Archive names the user uploads.
Names == {"a.bcf", "b.bcf"}

\* Rows of the issues table the user opens.
Rows == {1}

\* Routes of the application; a session starts on either.
Routes == {"upload", "issues"}

\* Sizes of the inspection responses.
IssueCounts == {2, 3}

VARIABLES
    uploadedFiles,    \* store: Map<string, UploadedFile>, in insertion order
    allIssues,        \* store: BCFIssue[]
    selectedIssue,    \* store: BCFIssue | null
    isInspecting,     \* store: boolean
    isMerging,        \* store: boolean
    inspectingFiles,  \* Upload component state: Set<string>
    drawerOpen,       \* Issues component state: boolean
    page,             \* mounted route: "upload" or "issues"
    inspections,      \* pending inspectFile calls (suspended at their await)
    merges,           \* pending handleMerge calls (suspended at their await)
    nextHandle,       \* identity of the next File object
    download,         \* link.download of the artifact the last step handed to the browser
    toast,            \* notification the last step emitted
    error,            \* errors the last step passed to the Dropzone's setError (<<>> for none)
    searchTerm,       \* IssuesTable component state: string, as its characters
    statusFilter,     \* IssuesTable component state: string, as its characters
    priorityFilter    \* IssuesTable component state: string, as its characters

vars == <<uploadedFiles, allIssues, selectedIssue, isInspecting, isMerging,
          inspectingFiles, drawerOpen, page, inspections, merges,
          nextHandle, download, toast, error, searchTerm, statusFilter, priorityFilter>>

storeVars == <<uploadedFiles, allIssues, selectedIssue, isInspecting, isMerging>>

tableVars == <<searchTerm, statusFilter, priorityFilter>>

\* useState<string>('all'): a string is the sequence of its characters.
All == <<"a", "l", "l">>

null == [fileName |-> "null", src |-> 0, idx |-> 0]

\* toast.<kind>(<text> <arg>)
Toast(kind, text, arg) == [kind |-> kind, text |-> text, arg |-> arg]

NoToast == Toast("none", "none", "none")

\* No error set (the Dropzone's error state is null).
NoError == <<>>

\* --------------------------------------------------------------- Map model
MapHas(m, k) == \E i \in 1..Len(m) : m[i].key = k

MapIndex(m, k) == CHOOSE i \in 1..Len(m) : m[i].key = k

MapGet(m, k) == m[MapIndex(m, k)]

\* Mutant of MapSet: every set appends, also for a key already present.
MapSetAppend(m, k, v) ==
    Append(m, [key |-> k, file |-> v.file, issues |-> v.issues, inspected |-> v.inspected])

\* Map.prototype.set: an existing key keeps its position, a new key is appended.
MapSet(m, k, v) ==
    LET e == [key |-> k, file |-> v.file, issues |-> v.issues, inspected |-> v.inspected]
    IN  IF MapHas(m, k) THEN [m EXCEPT ![MapIndex(m, k)] = e] ELSE Append(m, e)

\* Map.prototype.delete
MapDelete(m, k) == SelectSeq(m, LAMBDA e : e.key # k)

MapKeys(m) == [i \in 1..Len(m) |-> m[i].key]

\* ------------------------------------------------------------------- store
\* Mutant of PushAll: unshift instead of push.
RECURSIVE PushAllPrepend(_, _, _)
PushAllPrepend(m, i, acc) ==
    IF i > Len(m) THEN acc ELSE PushAllPrepend(m, i + 1, m[i].issues \o acc)

\* newFiles.forEach((fileData) => allIssues.push(...fileData.issues))
RECURSIVE PushAll(_, _, _)
PushAll(m, i, acc) ==
    IF i > Len(m) THEN acc ELSE PushAll(m, i + 1, acc \o m[i].issues)

AggregateIssues(m) == PushAll(m, 1, <<>>)

\* Mutant of addUploadedFile: an existing name is deleted and inserted anew.
addUploadedFileMoveToEnd(m, file) ==
    MapSet(MapDelete(m, file.name), file.name, [file |-> file, issues |-> <<>>, inspected |-> FALSE])

\* Mutant of addUploadedFile: spreads the existing entry, so a re-registered
\* name keeps its issues and its inspected flag.
addUploadedFileKeep(m, file) ==
    IF MapHas(m, file.name)
    THEN MapSet(m, file.name, [file |-> file, issues |-> MapGet(m, file.name).issues,
                               inspected |-> MapGet(m, file.name).inspected])
    ELSE MapSet(m, file.name, [file |-> file, issues |-> <<>>, inspected |-> FALSE])

\* addUploadedFile: returns the new uploadedFiles (allIssues is not part of the update).
addUploadedFile(m, file) ==
    MapSet(m, file.name, [file |-> file, issues |-> <<>>, inspected |-> FALSE])

\* Mutant of setFileIssues: the issues are stored without marking the entry.
setFileIssuesUnmarked(m, fileName, issues) ==
    LET newFiles ==
            IF MapHas(m, fileName)
            THEN MapSet(m, fileName,
                        [file |-> MapGet(m, fileName).file, issues |-> issues,
                         inspected |-> MapGet(m, fileName).inspected])
            ELSE m
    IN  [uploadedFiles |-> newFiles, allIssues |-> AggregateIssues(newFiles)]

\* Mutant of setFileIssues: the result is written to every entry.
setFileIssuesAll(m, fileName, issues) ==
    LET newFiles ==
            IF MapHas(m, fileName)
            THEN [i \in 1..Len(m) |-> [m[i] EXCEPT !.issues = issues, !.inspected = TRUE]]
            ELSE m
    IN  [uploadedFiles |-> newFiles, allIssues |-> AggregateIssues(newFiles)]

\* Mutant of setFileIssues: deletes the key before setting it, which moves
\* the entry to the end of the Map.
setFileIssuesReinsert(m, fileName, issues) ==
    LET newFiles ==
            IF MapHas(m, fileName)
            THEN MapSet(MapDelete(m, fileName), fileName,
                        [file |-> MapGet(m, fileName).file, issues |-> issues, inspected |-> TRUE])
            ELSE m
    IN  [uploadedFiles |-> newFiles, allIssues |-> PushAll(newFiles, 1, <<>>)]

\* setFileIssues: returns the partial state { uploadedFiles, allIssues }.
setFileIssues(m, fileName, issues) ==
    LET newFiles ==
            IF MapHas(m, fileName)
            THEN MapSet(m, fileName,
                        [file |-> MapGet(m, fileName).file, issues |-> issues, inspected |-> TRUE])
            ELSE m
    IN  [uploadedFiles |-> newFiles, allIssues |-> AggregateIssues(newFiles)]

\* removeFile: returns the partial state { uploadedFiles, allIssues }.
removeFile(m, fileName) ==
    LET newFiles == MapDelete(m, fileName)
    IN  [uploadedFiles |-> newFiles, allIssues |-> AggregateIssues(newFiles)]

\* Mutant of clearFiles: the selection survives the clear.
clearFilesKeepSelection == [uploadedFiles |-> <<>>, allIssues |-> <<>>, selectedIssue |-> selectedIssue]

\* clearFiles: returns the partial state it sets.
clearFiles == [uploadedFiles |-> <<>>, allIssues |-> <<>>, selectedIssue |-> null]

\* ------------------------------------------------------------ environment
\* The issue list of an inspection response for `file`: n issues in
\* extraction order, each carrying the archive name it came from.
ResponseIssues(file, n) ==
    [i \in 1..n |-> [fileName |-> file.name, src |-> file.handle, idx |-> i]]

\* Batches the Dropzone hands over: 1..MaxBatch files with distinct names.
Batches ==
    { s \in UNION { [1..k -> Names] : k \in 1..MaxBatch } :
        \A i, j \in 1..Len(s) : i # j => s[i] # s[j] }

\* The File objects of a batch: each a fresh handle.
BatchFiles(s) == [i \in 1..Len(s) |-> [name |-> s[i], handle |-> nextHandle + i - 1]]

\* -------------------------------------------------------------- API client
\* What a request meets: a transport error (fetch rejects), or a response
\* with a success or non-success status whose body parses as JSON or not.
Responses ==
    { [transport |-> "error", ok |-> FALSE, json |-> FALSE] }
    \cup { [transport |-> "ok", ok |-> o, json |-> j] : o \in BOOLEAN, j \in BOOLEAN }

\* lib/api ensureSuccess: returns the response when response.ok, throws otherwise.
ensureSuccess(r) == IF r.ok THEN "resolved" ELSE "rejected"

\* lib/api inspectBcf: fetch, ensureSuccess, response.json().
inspectBcf(r) ==
    IF r.transport = "error" THEN "rejected"
    ELSE IF ensureSuccess(r) = "rejected" THEN "rejected"
    ELSE IF r.json THEN "resolved" ELSE "rejected"

\* lib/api mergeBcfs: fetch, ensureSuccess, response.blob().
mergeBcfs(r) ==
    IF r.transport = "error" THEN "rejected"
    ELSE IF ensureSuccess(r) = "rejected" THEN "rejected"
    ELSE "resolved"

\* ApiClient.inspectBCF: fetch, throw unless response.ok, response.json().
ApiClient_inspectBCF(r) ==
    IF r.transport = "error" THEN "rejected"
    ELSE IF ~r.ok THEN "rejected"
    ELSE IF r.json THEN "resolved" ELSE "rejected"

\* ApiClient.mergeBCFs: fetch, throw unless response.ok, response.blob().
ApiClient_mergeBCFs(r) ==
    IF r.transport = "error" THEN "rejected"
    ELSE IF ~r.ok THEN "rejected"
    ELSE "resolved"

\* inspectBcf of components/Dropzone.tsx: fetch, res.json(), no status check.
Dropzone_inspectBcf(r) ==
    IF r.transport = "error" THEN "rejected"
    ELSE IF r.json THEN "resolved" ELSE "rejected"

\* mergeBcfs of components/Dropzone.tsx: fetch, res.blob(), no status check.
Dropzone_mergeBcfs(r) ==
    IF r.transport = "error" THEN "rejected" ELSE "resolved"

Init ==
    /\ uploadedFiles = <<>>
    /\ allIssues = <<>>
    /\ selectedIssue = null
    /\ isInspecting = FALSE
    /\ isMerging = FALSE
    /\ inspectingFiles = {}
    /\ drawerOpen = FALSE
    /\ page \in Routes
    /\ inspections = {}
    /\ merges = {}
    /\ nextHandle = 1
    /\ download = "none"
    /\ toast = NoToast
    /\ error = NoError
    /\ searchTerm = <<>>
    /\ statusFilter = All
    /\ priorityFilter = All

\* ------------------------------------------------------------ Upload page
RECURSIVE AddAll(_, _, _)
AddAll(m, files, i) ==
    IF i > Len(files) THEN m ELSE AddAll(addUploadedFile(m, files[i]), files, i + 1)

\* Dropzone.handleFiles -> Upload.handleFilesAccepted: for each file,
\* addUploadedFile(file) and inspectFile(file) up to its await.
HandleFilesAccepted(s) ==
    /\ page = "upload"
    /\ ~isInspecting                           \* <Dropzone disabled={isInspecting}>
    /\ nextHandle + Len(s) - 1 <= MaxUploads
    /\ nextHandle' = nextHandle + Len(s)
    /\ LET files == BatchFiles(s)
       IN  /\ uploadedFiles' = AddAll(uploadedFiles, files, 1)
           /\ inspectingFiles' = inspectingFiles \cup { files[i].name : i \in 1..Len(files) }
           /\ isInspecting' = TRUE
           /\ inspections' = inspections \cup
                  { [file |-> files[i], mounted |-> TRUE] : i \in 1..Len(files) }
    /\ toast' = NoToast
    /\ error' = NoError
    /\ UNCHANGED tableVars
    /\ download' = "none"
    /\ UNCHANGED <<allIssues, selectedIssue, isMerging, drawerOpen, page, merges>>

\* Mutant of InspectFinally: the finally block leaves the busy flag alone.
InspectFinallyBusy(t) ==
    /\ inspectingFiles' = IF t.mounted THEN inspectingFiles \ {t.file.name} ELSE inspectingFiles
    /\ isInspecting' = isInspecting
    /\ inspections' = inspections \ {t}

\* Mutant of InspectFinally: the settled request stays outstanding.
InspectFinallyKeep(t) ==
    /\ inspectingFiles' = IF t.mounted THEN inspectingFiles \ {t.file.name} ELSE inspectingFiles
    /\ isInspecting' = FALSE
    /\ inspections' = inspections

\* The finally block of inspectFile; setInspectingFiles only reaches the
\* component instance that started the inspection.
InspectFinally(t) ==
    /\ inspectingFiles' = IF t.mounted THEN inspectingFiles \ {t.file.name} ELSE inspectingFiles
    /\ isInspecting' = FALSE
    /\ inspections' = inspections \ {t}

\* inspectFile after its await, the request resolved with n issues.
InspectResolved(t, n) ==
    /\ t \in inspections
    /\ toast' = Toast("success", "Inspected", t.file.name)
    /\ download' = "none"
    /\ LET r == setFileIssues(uploadedFiles, t.file.name, ResponseIssues(t.file, n))
       IN  /\ uploadedFiles' = r.uploadedFiles
           /\ allIssues' = r.allIssues
    /\ InspectFinally(t)
    /\ error' = NoError
    /\ UNCHANGED tableVars
    /\ UNCHANGED <<selectedIssue, isMerging, drawerOpen, page, merges, nextHandle>>

\* inspectFile after its await, the request rejected.
InspectRejected(t) ==
    /\ t \in inspections
    /\ toast' = Toast("error", "Failed to inspect", t.file.name)
    /\ download' = "none"
    /\ InspectFinally(t)
    /\ error' = NoError
    /\ UNCHANGED tableVars
    /\ UNCHANGED <<uploadedFiles, allIssues, selectedIssue, isMerging, drawerOpen, page,
                   merges, nextHandle>>

\* Mutant of HandleRemoveFile: removing an archive drops a selection it owns.
HandleRemoveFileDeselect(k) ==
    /\ page = "upload"
    /\ MapHas(uploadedFiles, k)
    /\ k \notin inspectingFiles
    /\ LET r == removeFile(uploadedFiles, k)
       IN  /\ uploadedFiles' = r.uploadedFiles
           /\ allIssues' = r.allIssues
    /\ selectedIssue' = IF selectedIssue.fileName = k THEN null ELSE selectedIssue
    /\ toast' = Toast("info", "Removed", k)
    /\ download' = "none"
    /\ error' = NoError
    /\ UNCHANGED tableVars
    /\ UNCHANGED <<isInspecting, isMerging, inspectingFiles, drawerOpen, page,
                   inspections, merges, nextHandle>>

\* Upload.handleRemoveFile, behind the entry's remove button.
HandleRemoveFile(k) ==
    /\ page = "upload"
    /\ MapHas(uploadedFiles, k)
    /\ k \notin inspectingFiles                \* disabled={inspectingFiles.has(file.name)}
    /\ LET r == removeFile(uploadedFiles, k)
       IN  /\ uploadedFiles' = r.uploadedFiles
           /\ allIssues' = r.allIssues
    /\ toast' = Toast("info", "Removed", k)
    /\ download' = "none"
    /\ error' = NoError
    /\ UNCHANGED tableVars
    /\ UNCHANGED <<selectedIssue, isInspecting, isMerging, inspectingFiles, drawerOpen, page,
                   inspections, merges, nextHandle>>

\* Upload.handleClearAll, behind the Clear All button.
HandleClearAll ==
    /\ page = "upload"
    /\ Len(uploadedFiles) > 0                  \* filesArray.length > 0 && <Button>
    /\ uploadedFiles' = clearFiles.uploadedFiles
    /\ allIssues' = clearFiles.allIssues
    /\ selectedIssue' = clearFiles.selectedIssue
    /\ toast' = Toast("info", "Cleared all files", "none")
    /\ download' = "none"
    /\ error' = NoError
    /\ UNCHANGED tableVars
    /\ UNCHANGED <<isInspecting, isMerging, inspectingFiles, drawerOpen, page,
                   inspections, merges, nextHandle>>

RECURSIVE SumLen(_, _)
SumLen(m, i) == IF i > Len(m) THEN 0 ELSE Len(m[i].issues) + SumLen(m, i + 1)

totalIssues == SumLen(uploadedFiles, 1)

allInspected == Len(uploadedFiles) > 0 /\ \A i \in 1..Len(uploadedFiles) : uploadedFiles[i].inspected

\* Upload.handleViewIssues: navigate('/issues'); the Upload component
\* unmounts and its inspectingFiles state is dropped.
HandleViewIssues ==
    /\ page = "upload"
    /\ allInspected /\ totalIssues > 0         \* the View Issues button is rendered
    /\ page' = "issues"
    /\ inspectingFiles' = {}
    /\ inspections' = { [t EXCEPT !.mounted = FALSE] : t \in inspections }
    /\ toast' = NoToast
    /\ error' = NoError
    /\ searchTerm' = <<>> /\ statusFilter' = All /\ priorityFilter' = All
    /\ download' = "none"
    /\ UNCHANGED <<storeVars, drawerOpen, merges, nextHandle>>

\* ------------------------------------------------------------ Issues page
\* The Back button: navigate('/'); the Issues component unmounts (its
\* drawerOpen state is dropped) and a fresh Upload component mounts.
HandleBack ==
    /\ page = "issues"
    /\ page' = "upload"
    /\ drawerOpen' = FALSE
    /\ inspectingFiles' = {}
    /\ toast' = NoToast
    /\ error' = NoError
    /\ searchTerm' = <<>> /\ statusFilter' = All /\ priorityFilter' = All
    /\ download' = "none"
    /\ UNCHANGED <<storeVars, inspections, merges, nextHandle>>

\* Issues.handleIssueClick on a row of the table.
HandleIssueClick(i) ==
    /\ page = "issues"
    /\ i \in 1..Len(allIssues)
    /\ selectedIssue' = allIssues[i]
    /\ drawerOpen' = TRUE
    /\ toast' = NoToast
    /\ download' = "none"
    /\ error' = NoError
    /\ UNCHANGED tableVars
    /\ UNCHANGED <<uploadedFiles, allIssues, isInspecting, isMerging, inspectingFiles, page,
                   inspections, merges, nextHandle>>

\* Issues.handleDrawerClose(open), the drawer's onOpenChange.
HandleDrawerClose(open) ==
    /\ page = "issues"
    /\ drawerOpen
    /\ drawerOpen' = open
    /\ selectedIssue' = IF ~open THEN null ELSE selectedIssue
    /\ toast' = NoToast
    /\ download' = "none"
    /\ error' = NoError
    /\ UNCHANGED tableVars
    /\ UNCHANGED <<uploadedFiles, allIssues, isInspecting, isMerging, inspectingFiles, page,
                   inspections, merges, nextHandle>>

canMerge == Len(uploadedFiles) >= 2

\* Mutant of MergeFiles: the handles in reverse order.
MergeFilesReversed(m) == [i \in 1..Len(m) |-> m[Len(m) + 1 - i].file]

\* Array.from(uploadedFiles.values()).map(f => f.file)
MergeFiles(m) == [i \in 1..Len(m) |-> m[i].file]

\* Mutant of TooFewFiles: the comparison against 1.
TooFewFilesOffByOne(files) == Len(files) < 1

\* if (files.length < 2)
TooFewFiles(files) == Len(files) < 2

\* Issues.handleMerge up to its await (or to its early return).
handleMerge ==
    LET files == MergeFiles(uploadedFiles)
    IN  IF TooFewFiles(files)
        THEN /\ toast' = Toast("error", "Need at least 2 files to merge", "none")
             /\ download' = "none"
             /\ error' = NoError
             /\ UNCHANGED tableVars
             /\ UNCHANGED <<storeVars, inspectingFiles, drawerOpen, page, inspections, merges, nextHandle>>
        ELSE /\ isMerging' = TRUE
             /\ merges' = merges \cup {[files |-> files]}
             /\ toast' = NoToast
             /\ download' = "none"
             /\ error' = NoError
             /\ UNCHANGED tableVars
             /\ UNCHANGED <<uploadedFiles, allIssues, selectedIssue, isInspecting,
                            inspectingFiles, drawerOpen, page, inspections, nextHandle>>

\* Mutant of MergeClick: the button stays enabled while a merge is in flight.
MergeClickWhileMerging ==
    /\ page = "issues"
    /\ canMerge
    /\ handleMerge

\* A click on the Merge & Download button, rendered when canMerge and
\* enabled when not isMerging.
MergeClick ==
    /\ page = "issues"
    /\ canMerge
    /\ ~isMerging
    /\ handleMerge

\* handleMerge invoked whatever the number of registered archives (the
\* handler without the canMerge condition of its button).
HandleMergeCall ==
    /\ page = "issues"
    /\ ~isMerging
    /\ handleMerge

\* What mergeBcfs returns as filename, by the form of the response header.
DefaultFilename == "merged.bcfzip"

\* Content-Disposition headers of the merge response: none, one without a
\* filename parameter, one whose filename parameter is empty, the quoted-plain
\* form, the extended form, both forms, and an extended form whose value is
\* not a valid percent-encoding.
Dispositions ==
    { "",
      "attachment",
      "attachment; filename=\"\"",
      "attachment; filename=\"plain-name.bcfzip\"",
      "attachment; filename*=UTF-8''star%20name.bcfzip",
      "attachment; filename*=UTF-8''star%20name.bcfzip; filename=\"plain-name.bcfzip\"",
      "attachment; filename*=UTF-8''bad%zz.bcfzip" }

\* /filename\*=UTF-8''([^;]+)/i.exec(disposition): the captured group, "none"
\* when the expression does not match.
StarMatch(disposition) ==
    CASE disposition = "attachment; filename*=UTF-8''star%20name.bcfzip" -> "star%20name.bcfzip"
      [] disposition = "attachment; filename*=UTF-8''star%20name.bcfzip; filename=\"plain-name.bcfzip\""
            -> "star%20name.bcfzip"
      [] disposition = "attachment; filename*=UTF-8''bad%zz.bcfzip" -> "bad%zz.bcfzip"
      [] OTHER -> "none"

\* /filename="?([^";]+)"?/i.exec(disposition): the captured group, "none"
\* when the expression does not match.
PlainMatch(disposition) ==
    CASE disposition = "attachment; filename=\"plain-name.bcfzip\"" -> "plain-name.bcfzip"
      [] disposition = "attachment; filename*=UTF-8''star%20name.bcfzip; filename=\"plain-name.bcfzip\""
            -> "plain-name.bcfzip"
      [] OTHER -> "none"

\* decodeURIComponent on the captured values; "URIError" when it throws.
decodeURIComponent(v) ==
    CASE v = "star%20name.bcfzip" -> "star name.bcfzip"
      [] v = "bad%zz.bcfzip" -> "URIError"
      [] OTHER -> v

\* Mutant of mergeBcfsFilename: the quoted-plain form is tried first.
mergeBcfsFilenamePlainFirst(disposition) ==
    LET match == IF PlainMatch(disposition) # "none" THEN PlainMatch(disposition)
                 ELSE StarMatch(disposition)
    IN  IF match # "none"
        THEN IF decodeURIComponent(match) = "URIError" THEN match ELSE decodeURIComponent(match)
        ELSE DefaultFilename

\* mergeBcfs: the filename it returns for a response with that header.
mergeBcfsFilename(disposition) ==
    LET match == IF StarMatch(disposition) # "none" THEN StarMatch(disposition)
                 ELSE PlainMatch(disposition)
    IN  IF match # "none"
        THEN IF decodeURIComponent(match) = "URIError" THEN match ELSE decodeURIComponent(match)
        ELSE DefaultFilename

\* link.download = filename || `merged-${Date.now()}.bcfzip`
LinkDownload(filename) == IF filename # "" THEN filename ELSE "merged-timestamp.bcfzip"

\* Mutant of MergeResolved: no finally block, isMerging is left as it is.
MergeResolvedStuck(t, disposition) ==
    /\ t \in merges
    /\ download' = LinkDownload(mergeBcfsFilename(disposition))
    /\ toast' = Toast("success", "BCF files merged successfully", "none")
    /\ isMerging' = isMerging
    /\ merges' = merges \ {t}
    /\ error' = NoError
    /\ UNCHANGED tableVars
    /\ UNCHANGED <<uploadedFiles, allIssues, selectedIssue, isInspecting, inspectingFiles,
                   drawerOpen, page, inspections, nextHandle>>

\* handleMerge after its await, the request resolved.
MergeResolved(t, disposition) ==
    /\ t \in merges
    /\ download' = LinkDownload(mergeBcfsFilename(disposition))
    /\ toast' = Toast("success", "BCF files merged successfully", "none")
    /\ isMerging' = FALSE
    /\ merges' = merges \ {t}
    /\ error' = NoError
    /\ UNCHANGED tableVars
    /\ UNCHANGED <<uploadedFiles, allIssues, selectedIssue, isInspecting, inspectingFiles,
                   drawerOpen, page, inspections, nextHandle>>

\* Mutant of MergeRejected: the catch block swallows the failure.
MergeRejectedSilent(t) ==
    /\ t \in merges
    /\ toast' = NoToast
    /\ download' = "none"
    /\ isMerging' = FALSE
    /\ merges' = merges \ {t}
    /\ error' = NoError
    /\ UNCHANGED tableVars
    /\ UNCHANGED <<uploadedFiles, allIssues, selectedIssue, isInspecting, inspectingFiles,
                   drawerOpen, page, inspections, nextHandle>>

\* handleMerge after its await, the request rejected.
MergeRejected(t) ==
    /\ t \in merges
    /\ toast' = Toast("error", "Failed to merge BCF files", "none")
    /\ download' = "none"
    /\ isMerging' = FALSE
    /\ merges' = merges \ {t}
    /\ error' = NoError
    /\ UNCHANGED tableVars
    /\ UNCHANGED <<uploadedFiles, allIssues, selectedIssue, isInspecting, inspectingFiles,
                   drawerOpen, page, inspections, nextHandle>>

Next ==
    \/ \E s \in Batches : HandleFilesAccepted(s)
    \/ \E t \in inspections : \E n \in IssueCounts : InspectResolved(t, n)
    \/ \E t \in inspections : InspectRejected(t)
    \/ \E k \in Names : HandleRemoveFile(k)
    \/ HandleClearAll
    \/ HandleViewIssues
    \/ HandleBack
    \/ \E i \in Rows : HandleIssueClick(i)
    \/ HandleDrawerClose(FALSE)
    \/ MergeClick
    \/ \E t \in merges : \E d \in Dispositions : MergeResolved(t, d)
    \/ \E t \in merges : MergeRejected(t)

Spec == Init /\ [][Next]_vars

\* --------------------------------------------------------------- Dropzone
\* maxFiles = 10, the default of the Dropzone prop (the Upload page passes none).
maxFiles == 10

\* 100 * 1024 * 1024, the size limit in bytes.
MaxFileSize == 100 * 1024 * 1024

\* Names of the files the user drops: the archive names and a text file.
DropNames == Names \cup {"notes.txt"}

\* Sizes of the dropped files: at the limit and one byte over it.
DropSizes == {MaxFileSize, MaxFileSize + 1}

\* file.name.toLowerCase().split('.').pop(), on the names of DropNames.
Extension(name) ==
    CASE name = "a.bcf" -> "bcf"
      [] name = "b.bcf" -> "bcf"
      [] name = "notes.txt" -> "txt"

\* Mutant of FileError: the size is not checked.
FileErrorNoSize(f) ==
    IF Extension(f.name) \notin {"bcf", "bcfzip"} THEN "Invalid file type" ELSE "none"

\* The error validateFiles pushes for one file, "none" when it is valid.
FileError(f) ==
    IF Extension(f.name) \notin {"bcf", "bcfzip"} THEN "Invalid file type"
    ELSE IF f.size > MaxFileSize THEN "File too large"
    ELSE "none"

\* Dropzone.validateFiles: { valid, errors }.
validateFiles(files) ==
    IF Len(files) > maxFiles
    THEN [valid |-> <<>>, errors |-> << [kind |-> "Maximum files allowed", name |-> "none"] >>]
    ELSE LET bad == SelectSeq(files, LAMBDA f : FileError(f) # "none")
         IN  [valid |-> SelectSeq(files, LAMBDA f : FileError(f) = "none"),
              errors |-> [i \in 1..Len(bad) |-> [kind |-> FileError(bad[i]), name |-> bad[i].name]]]

\* The FileLists the user drops: every batch of archives at the size limit,
\* a text file alone and ahead of an archive, an oversized archive alone and
\* ahead of another archive, and one archive more than maxFiles allows.
Drops ==
    { [i \in 1..Len(s) |-> [name |-> s[i], size |-> MaxFileSize]] : s \in Batches }
    \cup { << [name |-> "notes.txt", size |-> MaxFileSize] >>,
           << [name |-> "notes.txt", size |-> MaxFileSize], [name |-> "a.bcf", size |-> MaxFileSize] >>,
           << [name |-> "a.bcf", size |-> MaxFileSize + 1] >>,
           << [name |-> "b.bcf", size |-> MaxFileSize + 1], [name |-> "a.bcf", size |-> MaxFileSize] >>,
           [i \in 1..(maxFiles + 1) |-> [name |-> "a.bcf", size |-> MaxFileSize]] }

\* Dropzone.handleFiles on a dropped or selected FileList.
HandleFiles(files) ==
    /\ page = "upload"
    /\ ~isInspecting                           \* if (... || disabled) return
    /\ Len(files) > 0
    /\ LET v == validateFiles(files)
       IN  IF Len(v.valid) > 0
           THEN HandleFilesAccepted([i \in 1..Len(v.valid) |-> v.valid[i].name])
           ELSE /\ error' = v.errors
                /\ UNCHANGED tableVars
                /\ toast' = NoToast
                /\ download' = "none"
                /\ UNCHANGED <<storeVars, inspectingFiles, drawerOpen, page, inspections,
                               merges, nextHandle>>

\* The Upload page with the Dropzone's own validation: any FileList is
\* dropped, inspections settle, archives are removed and cleared, and the
\* user goes to the Issues page and back.
NextDrops ==
    \/ \E files \in Drops : HandleFiles(files)
    \/ \E t \in inspections : \E n \in IssueCounts : InspectResolved(t, n)
    \/ \E t \in inspections : InspectRejected(t)
    \/ \E k \in Names : HandleRemoveFile(k)
    \/ HandleClearAll
    \/ HandleViewIssues
    \/ HandleBack

SpecDrops == Init /\ [][NextDrops]_vars

\* The handlers driven directly: handleMerge is also invoked when the merge
\* button would not be rendered.
NextCalls == Next \/ HandleMergeCall

SpecCalls == Init /\ [][NextCalls]_vars

\* ================================================================== claims
\* The ordered concatenation of the entries' issue lists, without deduplication.
RECURSIVE Concatenation(_)
\* ------------------------------------------------------------ IssuesTable
\* Largest number of issues the inspected archive holds.
MaxIssues == 3

Upper == << "A", "B", "C", "D", "E", "F", "G", "H", "I", "J", "K", "L", "M",
            "N", "O", "P", "Q", "R", "S", "T", "U", "V", "W", "X", "Y", "Z" >>

Lower == << "a", "b", "c", "d", "e", "f", "g", "h", "i", "j", "k", "l", "m",
            "n", "o", "p", "q", "r", "s", "t", "u", "v", "w", "x", "y", "z" >>

\* String.prototype.toLowerCase on one character.
LowerChar(c) ==
    IF \E i \in 1..Len(Upper) : Upper[i] = c
    THEN Lower[CHOOSE i \in 1..Len(Upper) : Upper[i] = c]
    ELSE c

\* String.prototype.toLowerCase
toLowerCase(s) == [i \in 1..Len(s) |-> LowerChar(s[i])]

\* String.prototype.includes
includes(s, t) == \E p \in 0..(Len(s) - Len(t)) : SubSeq(s, p + 1, p + Len(t)) = t

\* Mutant of matchesSearch: the search term is not lower-cased.
matchesSearchTermAsTyped(issue, term) ==
    \/ includes(toLowerCase(issue.title), term)
    \/ includes(toLowerCase(issue.author), term)
    \/ includes(toLowerCase(issue.guid), term)

matchesSearch(issue, term) ==
    \/ includes(toLowerCase(issue.title), toLowerCase(term))
    \/ includes(toLowerCase(issue.author), toLowerCase(term))
    \/ includes(toLowerCase(issue.guid), toLowerCase(term))

matchesStatus(issue, filter) ==
    filter = All \/ toLowerCase(issue.status) = toLowerCase(filter)

matchesPriority(issue, filter) ==
    filter = All \/ toLowerCase(issue.priority) = toLowerCase(filter)

\* The useMemo value filteredIssues for the props and state of this render.
filteredIssues ==
    SelectSeq(allIssues,
              LAMBDA issue : /\ matchesSearch(issue, searchTerm)
                             /\ matchesStatus(issue, statusFilter)
                             /\ matchesPriority(issue, priorityFilter))

\* The options of the two Select controls.
statuses == {All} \cup { allIssues[i].status : i \in 1..Len(allIssues) }

priorities == {All} \cup { allIssues[i].priority : i \in 1..Len(allIssues) }

\* Guid, title, author, status and priority of the issues an inspection
\* returns, in mixed case.
IssuePool ==
    { [guid |-> <<"A", "1">>, title |-> <<"W", "a", "l", "l">>, author |-> <<"B", "o">>,
       status |-> <<"O", "p", "e", "n">>, priority |-> <<"H", "i", "g", "h">>],
      [guid |-> <<"b", "2">>, title |-> <<"d", "o", "o", "r">>, author |-> <<"A", "l">>,
       status |-> <<"o", "p", "e", "n">>, priority |-> <<"l", "o", "w">>],
      [guid |-> <<"c", "3">>, title |-> <<"w", "A", "L", "L">>, author |-> <<"b", "o">>,
       status |-> <<"C", "l", "o", "s", "e", "d">>, priority |-> <<"h", "i", "g", "h">>] }

\* What the user types into the search box.
SearchTerms == { <<>>, <<"w", "a">>, <<"A", "L">>, <<"B">>, <<"3">>, <<"z">> }

\* The issues of a.bcf built from a list of pool members.
TableIssues(attrs) ==
    [i \in 1..Len(attrs) |->
        [fileName |-> "a.bcf", src |-> 1, idx |-> i,
         guid |-> attrs[i].guid, title |-> attrs[i].title, author |-> attrs[i].author,
         status |-> attrs[i].status, priority |-> attrs[i].priority]]

\* The Issues page showing the table for one inspected archive a.bcf.
InitTable ==
    \E attrs \in UNION { [1..k -> IssuePool] : k \in 1..MaxIssues } :
        /\ uploadedFiles = << [key |-> "a.bcf", file |-> [name |-> "a.bcf", handle |-> 1],
                               issues |-> TableIssues(attrs), inspected |-> TRUE] >>
        /\ allIssues = TableIssues(attrs)
        /\ selectedIssue = null
        /\ isInspecting = FALSE
        /\ isMerging = FALSE
        /\ inspectingFiles = {}
        /\ drawerOpen = FALSE
        /\ page = "issues"
        /\ inspections = {}
        /\ merges = {}
        /\ nextHandle = 2
        /\ download = "none"
        /\ toast = NoToast
        /\ error = NoError
        /\ searchTerm = <<>>
        /\ statusFilter = All
        /\ priorityFilter = All

\* onChange of the search Input: setSearchTerm(e.target.value).
SetSearchTerm(term) ==
    /\ page = "issues"
    /\ Len(allIssues) > 0                      \* the filters are rendered
    /\ searchTerm' = term
    /\ toast' = NoToast
    /\ download' = "none"
    /\ error' = NoError
    /\ UNCHANGED <<storeVars, inspectingFiles, drawerOpen, page, inspections, merges,
                   nextHandle, statusFilter, priorityFilter>>

\* onValueChange of the status Select: setStatusFilter.
SetStatusFilter(status) ==
    /\ page = "issues"
    /\ Len(allIssues) > 0
    /\ status \in statuses
    /\ statusFilter' = status
    /\ toast' = NoToast
    /\ download' = "none"
    /\ error' = NoError
    /\ UNCHANGED <<storeVars, inspectingFiles, drawerOpen, page, inspections, merges,
                   nextHandle, searchTerm, priorityFilter>>

\* onValueChange of the priority Select: setPriorityFilter.
SetPriorityFilter(priority) ==
    /\ page = "issues"
    /\ Len(allIssues) > 0
    /\ priority \in priorities
    /\ priorityFilter' = priority
    /\ toast' = NoToast
    /\ download' = "none"
    /\ error' = NoError
    /\ UNCHANGED <<storeVars, inspectingFiles, drawerOpen, page, inspections, merges,
                   nextHandle, searchTerm, statusFilter>>

NextTable ==
    \/ \E term \in SearchTerms : SetSearchTerm(term)
    \/ \E status \in statuses : SetStatusFilter(status)
    \/ \E priority \in priorities : SetPriorityFilter(priority)

SpecTable == InitTable /\ [][NextTable]_vars

Concatenation(m) == IF m = <<>> THEN <<>> ELSE Head(m).issues \o Concatenation(Tail(m))

\* The part of the store the registry operations write.
Registry == [uploadedFiles |-> uploadedFiles, allIssues |-> allIssues]

\* Outcomes of an inspection request.
Outcomes == { [ok |-> TRUE, n |-> n] : n \in IssueCounts } \cup { [ok |-> FALSE, n |-> 0] }

\* What the continuation of inspectFile does to the registry part of the store.
SettleStore(S, t, o) ==
    IF o.ok THEN setFileIssues(S.uploadedFiles, t.file.name, ResponseIssues(t.file, o.n)) ELSE S

\* C1: in every reachable state allIssues is the concatenation, in Map
\* order and without deduplication, of the issue lists of the entries of
\* uploadedFiles.
C1_AggregateIsConcatenation == allIssues = Concatenation(uploadedFiles)

\* C2: isInspecting is true exactly when at least one inspection is
\* outstanding.
C2_BusyIffOutstanding == isInspecting <=> (inspections # {})

\* C3: an entry only ever holds the result of the inspection started for its
\* own file: every issue attached to it comes from that file, and it is
\* inspected only once that inspection has settled.
C3_NoStaleResult ==
    \A i \in 1..Len(uploadedFiles) :
        LET e == uploadedFiles[i]
        IN  /\ \A j \in 1..Len(e.issues) : e.issues[j].src = e.file.handle
            /\ e.inspected => \A t \in inspections : t.file # e.file

\* C4: in every reachable state, registering a file whose name is already a
\* key leaves the same number of entries, exactly one of them for that name,
\* and that entry holds the new file, no issues and inspected=false.
C4_ReRegisterIsUpsert ==
    \A k \in Names :
        MapHas(uploadedFiles, k) =>
            LET f == [name |-> k, handle |-> nextHandle]
                m == addUploadedFile(uploadedFiles, f)
            IN  /\ Len(m) = Len(uploadedFiles)
                /\ Cardinality({ j \in 1..Len(m) : m[j].key = k }) = 1
                /\ MapGet(m, k).file = f
                /\ MapGet(m, k).issues = <<>>
                /\ MapGet(m, k).inspected = FALSE

\* C4 witness: a name whose previous entry held issues (they are still in
\* allIssues) has just been registered again and its new inspection is pending.
C4_Witness ==
    /\ toast = NoToast
    /\ isInspecting
    /\ \E i \in 1..Len(uploadedFiles) :
          LET e == uploadedFiles[i]
          IN  /\ ~e.inspected
              /\ e.issues = <<>>
              /\ [file |-> e.file, mounted |-> TRUE] \in inspections
              /\ \E j \in 1..Len(allIssues) :
                    allIssues[j].fileName = e.key /\ allIssues[j].src # e.file.handle

\* C5: in every reachable state in which the inspections of two archives
\* of different names are outstanding, settling the first and then the second
\* gives the same uploadedFiles and allIssues as settling them in the other
\* order, whatever the two outcomes (the equation is symmetric in the two
\* inspections, so each pair is taken once).
C5_SettleOrderIrrelevant ==
    \A tA, tB \in inspections :
        (tA.file.name # tB.file.name /\ tA.file.handle < tB.file.handle) =>
            \A oA, oB \in Outcomes :
                SettleStore(SettleStore(Registry, tA, oA), tB, oB)
                    = SettleStore(SettleStore(Registry, tB, oB), tA, oA)

\* C5 witness: a.bcf was registered before b.bcf, both inspections were
\* outstanding together, and b.bcf settled before a.bcf.
C5_Witness ==
    /\ MapKeys(uploadedFiles) = <<"a.bcf", "b.bcf">>
    /\ uploadedFiles[2].file.handle = uploadedFiles[1].file.handle + 1
    /\ \A i \in 1..2 : uploadedFiles[i].inspected
    /\ inspections = {}
    /\ toast = Toast("success", "Inspected", "a.bcf")
    /\ allIssues = ResponseIssues(uploadedFiles[1].file, 2) \o ResponseIssues(uploadedFiles[2].file, 3)

\* C6: in every reachable state, applying the result of any outstanding
\* inspection keeps the order of the entries and gives as allIssues the
\* concatenation of the entries' issue lists in that order, the settled
\* archive contributing its response in extraction order.
C6_AggregateInRegistrationOrder ==
    \A t \in inspections : \A n \in IssueCounts :
        LET r == setFileIssues(uploadedFiles, t.file.name, ResponseIssues(t.file, n))
        IN  /\ MapKeys(r.uploadedFiles) = MapKeys(uploadedFiles)
            /\ r.allIssues = Concatenation(r.uploadedFiles)
            /\ MapHas(uploadedFiles, t.file.name) =>
                  MapGet(r.uploadedFiles, t.file.name).issues = ResponseIssues(t.file, n)

\* C6 witness: a.bcf registered before b.bcf, two and three issues, a.bcf the
\* last to complete: five issues, those of a.bcf first.
C6_Witness ==
    /\ MapKeys(uploadedFiles) = <<"a.bcf", "b.bcf">>
    /\ Len(uploadedFiles[1].issues) = 2
    /\ Len(uploadedFiles[2].issues) = 3
    /\ toast = Toast("success", "Inspected", "a.bcf")
    /\ Len(allIssues) = 5
    /\ SubSeq(allIssues, 1, 2) = uploadedFiles[1].issues
    /\ SubSeq(allIssues, 3, 5) = uploadedFiles[2].issues

\* C7: removeFile(name) removes from allIssues exactly the issues of the
\* archive `name` and keeps every other issue, in the same order.
C7_RemoveTakesOnlyItsIssues ==
    [][\A k \in Names : HandleRemoveFile(k) =>
          allIssues' = SelectSeq(allIssues, LAMBDA i : i.fileName # k)]_vars

\* C8: a resolved inspection replaces the issue list of the entry keyed by
\* its name and marks it inspected when the entry exists, and leaves
\* uploadedFiles and allIssues as they were when it does not.
C8_GuardedApply ==
    [][\A t \in inspections : \A n \in IssueCounts : InspectResolved(t, n) =>
          IF MapHas(uploadedFiles, t.file.name)
          THEN /\ MapGet(uploadedFiles', t.file.name).issues = ResponseIssues(t.file, n)
               /\ MapGet(uploadedFiles', t.file.name).inspected
          ELSE /\ uploadedFiles' = uploadedFiles
               /\ allIssues' = allIssues]_vars

\* C9: when the inspection of a file fails, uploadedFiles and allIssues are
\* unchanged, the failure is reported, no new request is submitted, and the
\* entry of that file is inspected=false with an empty issue list.
C9_FailureLeavesArchiveUninspected ==
    [][\A t \in inspections : InspectRejected(t) =>
          /\ uploadedFiles' = uploadedFiles
          /\ allIssues' = allIssues
          /\ toast' = Toast("error", "Failed to inspect", t.file.name)
          /\ inspections' = inspections \ {t}
          /\ \A i \in 1..Len(uploadedFiles') :
                uploadedFiles'[i].file = t.file =>
                    ~uploadedFiles'[i].inspected /\ uploadedFiles'[i].issues = <<>>]_vars

\* C10: handleMerge with fewer than two registered archives reports a
\* validation failure, submits no merge request and changes no store field.
C10_MergeNeedsTwo ==
    [][(HandleMergeCall /\ Len(uploadedFiles) < 2) =>
          /\ toast' = Toast("error", "Need at least 2 files to merge", "none")
          /\ merges' = merges
          /\ download' = "none"
          /\ UNCHANGED storeVars]_vars

\* C10 witness: on the Issues page with one registered archive, the merge
\* handler has just reported the validation failure.
C10_Witness ==
    /\ page = "issues"
    /\ Len(uploadedFiles) = 1
    /\ toast = Toast("error", "Need at least 2 files to merge", "none")
    /\ merges = {}
    /\ ~isMerging

\* C11: a step of a merge flow (one that submits or settles a merge request,
\* or writes isMerging) leaves uploadedFiles, allIssues, selectedIssue and
\* isInspecting as they were, and a merge request that settles without a
\* download is reported as a failure.
C11_MergeLeavesRegistry ==
    [][/\ (merges' # merges \/ isMerging' # isMerging) =>
              UNCHANGED <<uploadedFiles, allIssues, selectedIssue, isInspecting>>
       /\ (merges' # merges /\ merges' \subseteq merges /\ download' = "none") =>
              toast' = Toast("error", "Failed to merge BCF files", "none")]_vars

\* C11 witness: a merge has just failed while archives were registered and
\* an issue was selected; the failure is reported and the registry is there.
C11_Witness ==
    /\ toast = Toast("error", "Failed to merge BCF files", "none")
    /\ Len(uploadedFiles) >= 2
    /\ allIssues # <<>>
    /\ selectedIssue # null
    /\ ~isMerging
    /\ merges = {}

\* C12: right after Clear All, uploadedFiles is empty, allIssues is empty and
\* selectedIssue is null, whatever the state the clear started from.
C12_ClearEmptiesEverything ==
    toast = Toast("info", "Cleared all files", "none") =>
        /\ uploadedFiles = <<>>
        /\ allIssues = <<>>
        /\ selectedIssue = null

\* C12 witness: the registry has just been cleared while inspections are
\* still outstanding.
C12_Witness ==
    /\ toast = Toast("info", "Cleared all files", "none")
    /\ uploadedFiles = <<>>
    /\ allIssues = <<>>
    /\ selectedIssue = null
    /\ inspections # {}

\* The File objects whose inspection request is outstanding.
PendingFiles == { t.file : t \in inspections }

\* C13: a step starts inspection requests exactly for the files it registers,
\* one request per file and never a second one for a file registered earlier;
\* a step that applies or reports the outcome of an inspection settles exactly
\* one outstanding request, which is then gone, and only such a step changes
\* the entries of the registry without registering, removing or clearing.
C13_OneRequestPerRegistration ==
    [][LET new == PendingFiles' \ PendingFiles
           gone == PendingFiles \ PendingFiles'
           registered == { uploadedFiles'[i].file : i \in 1..Len(uploadedFiles') }
       IN  /\ new = { f \in registered : f.handle >= nextHandle }
           /\ Cardinality(new) = nextHandle' - nextHandle
           /\ Cardinality(inspections') = Cardinality(PendingFiles')
           /\ \A f \in PendingFiles' : f.handle < nextHandle'
           /\ Cardinality(gone) <= 1
           /\ toast'.text \in {"Inspected", "Failed to inspect"} <=> gone # {}
           /\ \A f \in gone : toast'.arg = f.name
           /\ (/\ uploadedFiles' # uploadedFiles
               /\ MapKeys(uploadedFiles') = MapKeys(uploadedFiles)
               /\ nextHandle' = nextHandle) => gone # {}]_vars

\* C13 witness: two archives were registered in one batch, the request of one
\* has settled and the request of the other is still outstanding.
C13_Witness ==
    /\ nextHandle = 3
    /\ Len(uploadedFiles) = 2
    /\ Cardinality(inspections) = 1
    /\ toast.text = "Inspected"
    /\ \E i \in 1..2 : uploadedFiles[i].inspected /\ uploadedFiles[i].key = toast.arg

\* C14: no batch is accepted by the Dropzone, and so no archive is
\* registered, in a state in which an inspection is outstanding.
C14_NoRegistrationWhileInspecting ==
    [][\A s \in Batches : HandleFilesAccepted(s) => inspections = {}]_vars

\* C15: at most one merge request is outstanding, and while one is
\* outstanding the merge button is disabled (isMerging is true).
C15_OneMergeAtATime ==
    /\ Cardinality(merges) <= 1
    /\ merges # {} => isMerging

\* C15 witness: on the Issues page with two or more archives, a merge is in
\* flight and the button that would start a second one is disabled.
C15_Witness ==
    /\ page = "issues"
    /\ canMerge
    /\ Cardinality(merges) = 1
    /\ isMerging
    /\ toast = NoToast

\* C16: isMerging is true exactly when a merge request is outstanding.
C16_MergingIffOutstanding == isMerging <=> (merges # {})

\* C16 witness: a merge request has just resolved: nothing is outstanding and
\* isMerging is back to false.
C16_Witness ==
    /\ toast = Toast("success", "BCF files merged successfully", "none")
    /\ download # "none"
    /\ merges = {}
    /\ ~isMerging

\* C17: a step that registers an archive, settles an inspection or removes an
\* archive leaves selectedIssue as it was, and a step that changes
\* selectedIssue leaves uploadedFiles and allIssues as they were, unless it is
\* the clear, which empties them and resets the selection to null.
C17_SelectionIndependent ==
    [][/\ (\/ nextHandle' # nextHandle
           \/ toast'.text \in {"Inspected", "Failed to inspect", "Removed"}) =>
              selectedIssue' = selectedIssue
       /\ selectedIssue' # selectedIssue =>
              \/ UNCHANGED <<uploadedFiles, allIssues>>
              \/ /\ toast' = Toast("info", "Cleared all files", "none")
                 /\ selectedIssue' = null]_vars

\* C17 witness: the archive that owns the selected issue has just been
\* removed and the selection still holds that issue.
C17_Witness ==
    /\ selectedIssue # null
    /\ toast = Toast("info", "Removed", selectedIssue.fileName)
    /\ ~MapHas(uploadedFiles, selectedIssue.fileName)
    /\ \A i \in 1..Len(allIssues) : allIssues[i] # selectedIssue

\* The set of keys of a Map.
KeySet(m) == { m[i].key : i \in 1..Len(m) }

\* C18: no key of uploadedFiles is duplicated; a step that registers files
\* adds exactly their names to the keys, a remove takes exactly the removed
\* name away, a clear leaves no key, and every other step, a settling
\* inspection included, leaves the keys and their order as they were.
C18_KeysAreUploadedNames ==
    [][/\ Cardinality(KeySet(uploadedFiles')) = Len(uploadedFiles')
       /\ IF nextHandle' # nextHandle
          THEN KeySet(uploadedFiles') = KeySet(uploadedFiles) \cup
                   { f.name : f \in { g \in PendingFiles' : g.handle >= nextHandle } }
          ELSE IF toast'.text = "Removed"
          THEN KeySet(uploadedFiles') = KeySet(uploadedFiles) \ {toast'.arg}
          ELSE IF toast'.text = "Cleared all files"
          THEN uploadedFiles' = <<>>
          ELSE MapKeys(uploadedFiles') = MapKeys(uploadedFiles)]_vars

\* C18 witness: a.bcf and b.bcf were registered and a.bcf has just been
\* removed: b.bcf is the only key.
C18_Witness ==
    /\ toast = Toast("info", "Removed", "a.bcf")
    /\ MapKeys(uploadedFiles) = <<"b.bcf">>
    /\ nextHandle >= 3

\* A file the Dropzone has to reject: its extension is not bcf or bcfzip, or
\* its size exceeds 100MB.
Rejected(f) == Extension(f.name) \notin {"bcf", "bcfzip"} \/ f.size > 100 * 1024 * 1024

C20_FailuresSurface ==
    \A r \in Responses :
        (r.transport = "error" \/ ~r.ok) =>
            /\ inspections # {} =>
                  /\ inspectBcf(r) = "rejected"
                  /\ ApiClient_inspectBCF(r) = "rejected"
                  /\ Dropzone_inspectBcf(r) = "rejected"
            /\ merges # {} =>
                  /\ mergeBcfs(r) = "rejected"
                  /\ ApiClient_mergeBCFs(r) = "rejected"
                  /\ Dropzone_mergeBcfs(r) = "rejected"

\* C21: a merge that resolves with a response whose header holds no
\* filename parameter at all gives the downloaded artifact the generated
\* timestamp-based name.
C21_TimestampNameWhenAbsent ==
    [][\A t \in merges : \A d \in Dispositions :
          (MergeResolved(t, d) /\ StarMatch(d) = "none" /\ PlainMatch(d) = "none") =>
              download' = "merged-timestamp.bcfzip"]_vars


\* The name C25 expects for a header: the extended form when present (its
\* percent-decoding, or the raw value when that cannot be decoded), else the
\* quoted-plain form, else the default name.
C25_Expected(d) ==
    IF StarMatch(d) # "none"
    THEN IF decodeURIComponent(StarMatch(d)) = "URIError"
         THEN StarMatch(d) ELSE decodeURIComponent(StarMatch(d))
    ELSE IF PlainMatch(d) # "none" THEN PlainMatch(d) ELSE DefaultFilename

\* C25: the name of the downloaded artifact prefers the extended
\* filename*=UTF-8'' parameter over the quoted-plain filename parameter and
\* the latter over the default name; an extended value that cannot be
\* percent-decoded is used undecoded.
C25_FilenamePrecedence ==
    [][\A t \in merges : \A d \in Dispositions :
          MergeResolved(t, d) => download' = C25_Expected(d)]_vars

\* A download named by the extended parameter of a header that carried both.
C25_Witness ==
    /\ download = "star name.bcfzip"
    /\ toast = Toast("success", "BCF files merged successfully", "none")


\* C22: in every reachable state, applying the result of any outstanding
\* inspection with setFileIssues leaves every entry of another name exactly as
\* it was, keeps the file handle of the entry it writes, and keeps the number
\* and the order of the entries.
C22_SetFileIssuesTouchesOnlyItsEntry ==
    \A t \in inspections : \A n \in IssueCounts :
        LET r == setFileIssues(uploadedFiles, t.file.name, ResponseIssues(t.file, n)).uploadedFiles
        IN  /\ Len(r) = Len(uploadedFiles)
            /\ \A i \in 1..Len(uploadedFiles) :
                  /\ r[i].key = uploadedFiles[i].key
                  /\ r[i].file = uploadedFiles[i].file
                  /\ uploadedFiles[i].key # t.file.name => r[i] = uploadedFiles[i]

\* C22 witness: the result for a.bcf has just been stored while b.bcf, second
\* in the registry, is still waiting for its own.
C22_Witness ==
    /\ toast = Toast("success", "Inspected", "a.bcf")
    /\ MapKeys(uploadedFiles) = <<"a.bcf", "b.bcf">>
    /\ uploadedFiles[1].inspected
    /\ uploadedFiles[1].issues # <<>>
    /\ ~uploadedFiles[2].inspected
    /\ uploadedFiles[2].issues = <<>>
    /\ [file |-> uploadedFiles[2].file, mounted |-> TRUE] \in inspections


\* C23: at most one inspection is outstanding for each distinct archive name
\* (inspections of different names may be outstanding together).
C23_OneInspectionPerName ==
    \A t1, t2 \in inspections : t1.file.name = t2.file.name => t1 = t2


\* C24: a merge request that starts carries exactly the file handles of the
\* entries registered at that moment, in registration order, whether or not
\* their inspections have settled; starting it changes no entry, and no later
\* step changes what an outstanding request carries.
C24_MergeSendsSnapshot ==
    [][/\ merges' \subseteq merges \cup
              { [files |-> [i \in 1..Len(uploadedFiles) |-> uploadedFiles[i].file]] }
       /\ merges' \ merges # {} => uploadedFiles' = uploadedFiles]_vars

\* C24 witness: a merge is outstanding that carries the handle of an archive
\* whose inspection is still in flight, and the registry has changed since
\* the merge was triggered.
C24_Witness ==
    \E m \in merges :
        /\ \E t \in inspections : \E i \in 1..Len(m.files) : m.files[i] = t.file
        /\ m.files # [i \in 1..Len(uploadedFiles) |-> uploadedFiles[i].file]


\* ---------------------------------------------------------------- fairness
\* The continuation of the inspection of the file with handle h: its request
\* resolves or rejects.
InspectSettles(h) ==
    \E t \in inspections :
        /\ t.file.handle = h
        /\ (InspectRejected(t) \/ \E n \in IssueCounts : InspectResolved(t, n))

\* The Upload page fed with accepted batches only: batches are registered,
\* inspections settle, archives are removed and cleared, and the user goes to
\* the Issues page and back.
NextInspect ==
    \/ \E s \in Batches : HandleFilesAccepted(s)
    \/ \E t \in inspections : \E n \in IssueCounts : InspectResolved(t, n)
    \/ \E t \in inspections : InspectRejected(t)
    \/ \E k \in Names : HandleRemoveFile(k)
    \/ HandleClearAll
    \/ HandleViewIssues
    \/ HandleBack

\* That session with every request the page has sent answered: the mock
\* client resolves after a timer, the HTTP clients resolve or reject when
\* fetch does.
SpecFair == Init /\ [][NextInspect]_vars /\ \A h \in 1..MaxUploads : WF_vars(InspectSettles(h))

\* C26: isInspecting is false whenever no inspection is outstanding, and,
\* every outstanding inspection settling eventually, a true isInspecting
\* always becomes false again, whether the inspections succeed or fail.
C26_BusyFlagNeverStuck ==
    /\ [](inspections = {} => ~isInspecting)
    /\ (isInspecting ~> ~isInspecting)

\* C26 witness: the only outstanding inspection has just failed and the flag
\* is down.
C26_Witness ==
    /\ toast = Toast("error", "Failed to inspect", "a.bcf")
    /\ inspections = {}
    /\ ~isInspecting
    /\ MapKeys(uploadedFiles) = <<"a.bcf">>
    /\ ~uploadedFiles[1].inspected


\* C27: in every reachable state every entry that is not marked inspected
\* has an empty issue list.
C27_UninspectedHasNoIssues ==
    \A i \in 1..Len(uploadedFiles) :
        ~uploadedFiles[i].inspected => uploadedFiles[i].issues = <<>>

\* C27 witness: next to an inspected entry that holds issues, an entry whose
\* inspection has just failed: not inspected, no issues.
C27_Witness ==
    /\ toast = Toast("error", "Failed to inspect", "b.bcf")
    /\ MapKeys(uploadedFiles) = <<"a.bcf", "b.bcf">>
    /\ uploadedFiles[1].inspected /\ uploadedFiles[1].issues # <<>>
    /\ ~uploadedFiles[2].inspected /\ uploadedFiles[2].issues = <<>>
    /\ inspections = {}


\* C28: while the Upload page is shown, inspectingFiles holds a name exactly
\* when an inspection of a file of that name is outstanding (so that the
\* remove control of an archive is disabled as long as one is).
C28_InspectingFilesIffOutstanding ==
    page = "upload" =>
        \A k \in Names : k \in inspectingFiles <=> (\E t \in inspections : t.file.name = k)


\* C29: in every reachable state, registering again a name that is already a
\* key leaves the sequence of keys as it was, and when the new file's
\* inspection result is then stored, allIssues lists the archives' issues in
\* that same order, the new result in the place of the old entry's issues.
C29_ReRegisterKeepsPosition ==
    \A k \in Names :
        MapHas(uploadedFiles, k) =>
            LET f == [name |-> k, handle |-> nextHandle]
                m == addUploadedFile(uploadedFiles, f)
            IN  /\ MapKeys(m) = MapKeys(uploadedFiles)
                /\ \A n \in IssueCounts :
                      LET r == setFileIssues(m, k, ResponseIssues(f, n))
                          expected == [i \in 1..Len(uploadedFiles) |->
                                          IF uploadedFiles[i].key = k
                                          THEN [issues |-> ResponseIssues(f, n)]
                                          ELSE [issues |-> uploadedFiles[i].issues]]
                      IN  /\ MapKeys(r.uploadedFiles) = MapKeys(uploadedFiles)
                          /\ r.allIssues = Concatenation(expected)

\* C29 witness: a.bcf, first in the registry, was registered again after
\* b.bcf; its new result has just been stored and its issues still come
\* before those of b.bcf.
C29_Witness ==
    /\ toast = Toast("success", "Inspected", "a.bcf")
    /\ MapKeys(uploadedFiles) = <<"a.bcf", "b.bcf">>
    /\ uploadedFiles[1].file.handle > uploadedFiles[2].file.handle
    /\ uploadedFiles[1].inspected /\ uploadedFiles[2].inspected
    /\ uploadedFiles[1].issues = ResponseIssues(uploadedFiles[1].file, 3)
    /\ uploadedFiles[2].issues = ResponseIssues(uploadedFiles[2].file, 2)
    /\ allIssues = uploadedFiles[1].issues \o uploadedFiles[2].issues


\* Some entry holds the file with handle h (handles are never reused, so at
\* most one name ever goes with a handle).
C30_Holds(h) ==
    \E i \in 1..Len(uploadedFiles) : uploadedFiles[i].file.handle = h

\* The entry that holds the file with handle h is marked inspected with a
\* response of that file's inspection, and allIssues lists those issues.
C30_Applied(h) ==
    \E i \in 1..Len(uploadedFiles) :
        LET e == uploadedFiles[i]
        IN  /\ e.file.handle = h
            /\ e.inspected
            /\ \E n \in IssueCounts : e.issues = ResponseIssues(e.file, n)
            /\ \A j \in 1..Len(e.issues) : \E p \in 1..Len(allIssues) : allIssues[p] = e.issues[j]

\* The inspection of the file with handle h is outstanding.
C30_Outstanding(h) == \E t \in inspections : t.file.handle = h

\* C30: every outstanding inspection settling eventually, a registered
\* archive whose inspection is outstanding leads to a state where its entry
\* is marked inspected with exactly the issues its inspection returned and
\* allIssues lists them -- unless its inspection has failed or the archive
\* has been removed, cleared or registered again by then.
C30_InspectionEventuallyApplied ==
    \A h \in 1..MaxUploads :
        (C30_Holds(h) /\ C30_Outstanding(h))
            ~> \/ C30_Applied(h)
               \/ ~C30_Holds(h)
               \/ /\ ~C30_Outstanding(h)
                  /\ \E i \in 1..Len(uploadedFiles) :
                        /\ uploadedFiles[i].file.handle = h
                        /\ toast = Toast("error", "Failed to inspect", uploadedFiles[i].key)

\* C30 witness: the only registered archive has just been inspected; its
\* entry and allIssues hold the three issues of its response.
C30_Witness ==
    /\ toast = Toast("success", "Inspected", "b.bcf")
    /\ inspections = {}
    /\ MapKeys(uploadedFiles) = <<"b.bcf">>
    /\ C30_Applied(1)
    /\ allIssues = ResponseIssues([name |-> "b.bcf", handle |-> 1], 3)


\* The text contains the term at some position, letters compared without
\* regard to case.
C31_ContainsIgnoringCase(text, term) ==
    \E p \in 1..(Len(text) + 1) :
        /\ p + Len(term) - 1 <= Len(text)
        /\ \A j \in 1..Len(term) : LowerChar(text[p + j - 1]) = LowerChar(term[j])

\* The two strings are the same up to the case of their letters.
C31_EqualIgnoringCase(a, b) ==
    Len(a) = Len(b) /\ \A j \in 1..Len(a) : LowerChar(a[j]) = LowerChar(b[j])

\* The issue matches the search term and the two selected filters.
C31_Matches(issue) ==
    /\ \/ C31_ContainsIgnoringCase(issue.title, searchTerm)
       \/ C31_ContainsIgnoringCase(issue.author, searchTerm)
       \/ C31_ContainsIgnoringCase(issue.guid, searchTerm)
    /\ statusFilter = All \/ C31_EqualIgnoringCase(issue.status, statusFilter)
    /\ priorityFilter = All \/ C31_EqualIgnoringCase(issue.priority, priorityFilter)

\* C31: the issues the table shows are the issues of the aggregate at the
\* positions that match the search term (in title, author or guid) and the
\* selected status and priority, without regard to case, in the aggregate's
\* order; with an empty term and both filters 'all' they are the aggregate.
C31_ShownIsFilteredAggregate ==
    LET kept == { i \in 1..Len(allIssues) : C31_Matches(allIssues[i]) }
    IN  /\ \E f \in [1..Len(filteredIssues) -> 1..Len(allIssues)] :
              /\ \A i, j \in 1..Len(filteredIssues) : i < j => f[i] < f[j]
              /\ { f[j] : j \in 1..Len(filteredIssues) } = kept
              /\ \A j \in 1..Len(filteredIssues) : filteredIssues[j] = allIssues[f[j]]
        /\ (searchTerm = <<>> /\ statusFilter = All /\ priorityFilter = All)
              => filteredIssues = allIssues

\* C31 witness: of three issues the table shows the first and the third; the
\* second matches the term "AL" in its title wALL but is Closed, the third
\* matches it in its author Al and has the status open, the filter is Open.
C31_Witness ==
    /\ searchTerm = <<"A", "L">>
    /\ statusFilter = <<"O", "p", "e", "n">>
    /\ priorityFilter = All
    /\ Len(allIssues) = 3
    /\ allIssues[2].title = <<"w", "A", "L", "L">>
    /\ allIssues[3].author = <<"A", "l">>
    /\ filteredIssues = << allIssues[1], allIssues[3] >>

====
